---- MODULE Spec2Model ----
(***************************************************************************)
(* Model of the guest-logging-go dispatcher (package logger): Init, Log,   *)
(* the formatting wrappers, Close, Fatalf, SetDebugLogging, the periodic   *)
(* flush goroutine and the platform local sinks (syslog on unix; event log *)
(* plus serial port on windows).                                           *)
(*                                                                         *)
(* The package variables are the state.  Every public operation is one     *)
(* action that performs the whole call; what the call did, in order, is    *)
(* recorded in `last` (the trace of the most recent call) so that ordering *)
(* and delivery properties are state predicates.  External collaborators   *)
(* (syslog, event log, serial port, cloud client, io.Writers) answer       *)
(* nondeterministically: every call that can return an error does so or    *)
(* not, chosen by the `env` argument of the action.                        *)
(*                                                                         *)
(* Environment assumption (spec section 5): the host calls Log, Close and  *)
(* Fatalf only after some Init call has returned nil.                      *)
(***************************************************************************)
EXTENDS Integers, Sequences, FiniteSets, Bags, TLC

\* ------------------------------------------------------------------ bounds
MaxWriters == 2      \* length of the opts.Writers list when it is not empty
MaxFatalFuncs == 2   \* length of DeferredFatalFuncs once the host has filled it
MaxLoops == 2        \* flush goroutines the model lets Init start
NThreads == 2        \* goroutines that call Log concurrently

\* ------------------------------------------------------------------ values
Nil == 0                                  \* a nil pointer
Handle == 1                               \* a pointer to an opened handle
Platforms == {"unix", "windows"}          \* build tags of the two local sinks
Severities == {"Debug", "Info", "Warning", "Error", "Critical", "Other"}
Names == {"", "n"}                        \* "" is the empty string
WriterLists == {<<>>, [i \in 1 .. MaxWriters |-> i]}

VARIABLES
    platform,            \* which build of the local sink is linked in
    loggerName,          \* package var loggerName
    debugEnabled,        \* package var debugEnabled
    writers,             \* package var writers
    cloudLoggingClient,  \* package var cloudLoggingClient (Nil or handle id)
    cloudLogger,         \* package var cloudLogger (Nil or id of its client)
    stdoutEnabled,       \* package var stdoutEnabled read by local()
    slWriter,            \* unix: package var slWriter (Nil or handle id)
    el,                  \* windows: package var el (Nil or handle id)
    port,                \* windows: package var port (Nil or handle id)
    DeferredFatalFuncs,  \* package var DeferredFatalFuncs
    released,            \* per kind of handle: Close calls made on the handle the
                         \* package still refers to (0, 1, 2 = more than once)
    nLoops,              \* running flush goroutines
    inited,              \* some Init call has returned nil
    proc,                \* "running", "panicked" or "exited"
    lastInit,            \* how the most recent Init call ended
    thr,                 \* concurrent callers of Log: where each one is in Log
    recv,                \* bag of the writes the sinks got from those callers
    last,                \* trace of the most recent call
    input,               \* argument of a pure function of the package
    output               \* what that function returned for it

dispatcher == <<loggerName, debugEnabled, writers, cloudLoggingClient, cloudLogger,
                stdoutEnabled, slWriter, el, port>>
vars == <<platform, loggerName, debugEnabled, writers, cloudLoggingClient, cloudLogger,
          stdoutEnabled, slWriter, el, port, DeferredFatalFuncs, released,
          nLoops, inited, proc, lastInit, thr, recv, last, input, output>>
conc == <<thr, recv>>
pure == <<input, output>>

\* The package state as one record, handed to the operators below.
Cur ==
    [platform |-> platform, loggerName |-> loggerName, debugEnabled |-> debugEnabled,
     writers |-> writers, cloudLoggingClient |-> cloudLoggingClient,
     cloudLogger |-> cloudLogger, stdoutEnabled |-> stdoutEnabled,
     slWriter |-> slWriter, el |-> el, port |-> port,
     released |-> released, nLoops |-> nLoops]

\* One thing a call did.  k: kind; id: handle, writer or callback; sev: level;
\* ok: the collaborator returned no error; x: payload kind or source frame.
Ev(k, id, sev, ok, x) == [k |-> k, id |-> id, sev |-> sev, ok |-> ok, x |-> x]

\* A pointer variable holds Nil or Handle: the handle it refers to.  A handle
\* that is opened replaces the one its variable held, which no variable
\* refers to any more; `released` counts the Close calls on the handle that
\* is still referred to and starts again at 0 for a new one.
\* One more Close call on the handle of this kind.
Bump(rel, kind) == [rel EXCEPT ![kind] = IF @ >= 2 THEN 2 ELSE @ + 1]

\* ------------------------------------------------------------ entries
\* LogEntry as the caller builds it: Payload says whether StructuredPayload is set.
Entries == [Severity : Severities, CallDepth : {0, 1}, Payload : BOOLEAN]
Entry(sev) == [Severity |-> sev, CallDepth |-> 0, Payload |-> FALSE]

\* The goroutine's stack at the runtime.Caller call inside caller(): frame 0 first.
DirectStack == <<"caller", "Log", "user", "userParent">>
WrapperStack == <<"caller", "Log", "wrapper", "user", "userParent">>
\* The same when the wrapper is called by Init or Close of this package.
InternalStack == <<"caller", "Log", "wrapper", "facade", "user", "userParent">>

\* caller(depth): runtime.Caller(depth+1); "???" when the stack is too short.
caller(depth, stack) ==
    LET d == depth + 1
    IN  IF d + 1 <= Len(stack) THEN stack[d + 1] ELSE "???"

Panic == Ev("panic", Nil, "", FALSE, "nil pointer dereference")

\* syslog priority used by local() on unix for each severity; "" when the
\* switch has no case for it (or Debug while debug logging is off).
syslogLevel(sev, dbg) ==
    CASE sev = "Debug" -> IF dbg THEN "Debug" ELSE ""
      [] sev = "Info" -> "Info"
      [] sev = "Warning" -> "Warning"
      [] sev = "Error" -> "Err"
      [] sev = "Critical" -> "Crit"
      [] OTHER -> ""

\* event-log call used by local() on windows for each severity.
eventlogLevel(sev) ==
    CASE sev \in {"Debug", "Info"} -> "Info"
      [] sev = "Warning" -> "Warning"
      [] sev \in {"Error", "Critical"} -> "Error"
      [] OTHER -> ""

\* os.Stdout.Write at the end of local() on unix.
stdoutUnix(e, st) ==
    IF st.stdoutEnabled /\ ~(e.Severity = "Debug" /\ ~st.debugEnabled)
    THEN <<Ev("stdout", Nil, e.Severity, TRUE, "bytes")>> ELSE <<>>

\* local() on unix: a method of slWriter is called for the five known
\* severities; with slWriter nil that call dereferences nil and panics.
localUnix(e, st, env) ==
    LET lvl == syslogLevel(e.Severity, st.debugEnabled)
    IN  IF lvl # "" /\ st.slWriter = Nil
        THEN [events |-> <<Panic>>, panicked |-> TRUE]
        ELSE [events |-> (IF lvl # ""
                          THEN <<Ev("syslog", st.slWriter, lvl, (env.fail # 0), "line")>>
                          ELSE <<>>) \o stdoutUnix(e, st),
              panicked |-> FALSE]

\* local() on windows: both handles are nil-checked.
localWindows(e, st, env) ==
    LET lvl == eventlogLevel(e.Severity)
    IN  [events |-> (IF st.port # Nil
                     THEN <<Ev("serial", st.port, e.Severity, (env.fail # 0), "bytes")>>
                     ELSE <<>>)
                 \o (IF st.el # Nil /\ lvl # ""
                     THEN <<Ev("eventlog", st.el, lvl, (env.fail # 0), "line")>>
                     ELSE <<>>)
                 \o (IF st.stdoutEnabled
                     THEN <<Ev("stdout", Nil, e.Severity, TRUE, "bytes")>>
                     ELSE <<>>),
         panicked |-> FALSE]

local(e, st, env) ==
    IF st.platform = "unix" THEN localUnix(e, st, env) ELSE localWindows(e, st, env)

\* Mutant of writeAll: the loop returns at the first writer that fails.
writeAll_StopsAtError(e, st, env) ==
    [i \in 1 .. (IF env.fail \in 1 .. Len(st.writers) THEN env.fail ELSE Len(st.writers)) |->
        Ev("writer", st.writers[i], e.Severity, env.fail # i, "bytes")]

\* for _, w := range writers { w.Write(e.bytes()) }: the error is dropped.
writeAll(e, st, env) ==
    [i \in 1 .. Len(st.writers) |->
        Ev("writer", st.writers[i], e.Severity, env.fail # i, "bytes")]

\* Mutant of cloudSeverity: the internal value is handed on as it is.
cloudSeverity_PassesRaw(sev) == sev

\* The switch that maps the internal severity to the cloud severity.
cloudSeverity(sev) ==
    CASE sev = "Debug" -> "Debug"
      [] sev = "Info" -> "Info"
      [] sev = "Warning" -> "Warning"
      [] sev = "Error" -> "Error"
      [] sev = "Critical" -> "Critical"
      [] OTHER -> "Default"

\* Mutant of cloudSubmit: the entry is the payload whatever the entry carries.
cloudSubmit_AlwaysEntry(e, st) ==
    IF st.cloudLogger # Nil
    THEN <<Ev("cloud", st.cloudLogger, cloudSeverity(e.Severity), TRUE, "entry")>>
    ELSE <<>>

\* if cloudLogger != nil { ... cloudLogger.Log(...) }
cloudSubmit(e, st) ==
    IF st.cloudLogger # Nil
    THEN <<Ev("cloud", st.cloudLogger, cloudSeverity(e.Severity), TRUE,
              IF e.Payload THEN "structured" ELSE "entry")>>
    ELSE <<>>

\* Mutant of suppressed: the debug flag is not consulted.
suppressed_IgnoresFlag(e, st) == e.Severity = "Debug"

\* Does Log return at its first statement?
suppressed(e, st) == e.Severity = "Debug" /\ ~st.debugEnabled

\* Log(e) called with the given stack, in package state st; env gives the
\* answers of the sinks.  Log assigns no package variable, so its result is
\* the sequence of things it did and whether it panicked.
Log(e, stack, st, env) ==
    IF suppressed(e, st)
    THEN [events |-> <<>>, panicked |-> FALSE]
    ELSE LET depth == IF e.CallDepth = 0 THEN 2 ELSE e.CallDepth
             enrich == Ev("enrich", Nil, e.Severity, TRUE, caller(depth, stack))
             loc == local(e, st, env)
         IN  IF loc.panicked
             THEN [events |-> <<enrich>> \o loc.events, panicked |-> TRUE]
             ELSE [events |-> <<enrich>> \o loc.events \o writeAll(e, st, env)
                                \o cloudSubmit(e, st),
                   panicked |-> FALSE]

\* Debugf, Infof, Warningf, Errorf: Log(LogEntry{Message, Severity}).
Wrapperf(sev, st, env) == Log(Entry(sev), WrapperStack, st, env)

\* Errorf inside Init and Warningf inside Close: the wrapper's caller is a
\* function of the package.
Internalf(sev, st, env) == Log(Entry(sev), InternalStack, st, env)

\* Answers of the sinks to the writes of one call: at most one sink returns
\* an error; fail = -1: none, 0: the local sink, i: the i-th writer.
FailAt(ws) == -1 .. Len(ws)
LogEnvs(ws) == [fail : FailAt(ws)]

\* ------------------------------------------------------------ local sink set-up
\* How the platform calls inside localSetup end: unix has one call
\* (syslog.New); windows has three (InstallAsEventCreate, eventlog.Open,
\* serial.OpenPort) and the outcome names the first one that fails.
SetupOutcomes(pf) == IF pf = "unix" THEN {"ok", "fail"} ELSE {"ok", "install", "open", "port"}

\* slWriter, err = syslog.New(...): nil and the error when it fails.
localSetupUnix(st, outcome) ==
    IF outcome = "ok"
    THEN [st |-> [st EXCEPT !.slWriter = Handle, !.released.syslog = 0],
          err |-> FALSE,
          events |-> <<Ev("localSetup", Handle, "", TRUE, "syslog")>>]
    ELSE [st |-> [st EXCEPT !.slWriter = Nil, !.released.syslog = 0],
          err |-> TRUE,
          events |-> <<Ev("localSetup", Nil, "", FALSE, "syslog")>>]

\* windows localSetup: returns at the first failing call; el stays open when
\* only the serial port fails.
localSetupWindows(st, outcome) ==
    CASE outcome = "install" ->
            [st |-> st, err |-> TRUE,
             events |-> <<Ev("localSetup", Nil, "", FALSE, "install")>>]
      [] outcome = "open" ->
            [st |-> [st EXCEPT !.el = Nil, !.released.eventlog = 0], err |-> TRUE,
             events |-> <<Ev("localSetup", Nil, "", FALSE, "eventlog")>>]
      [] outcome = "port" ->
            [st |-> [st EXCEPT !.el = Handle, !.port = Nil,
                                !.released.eventlog = 0, !.released.serial = 0],
             err |-> TRUE,
             events |-> <<Ev("localSetup", Handle, "", TRUE, "eventlog"),
                          Ev("localSetup", Nil, "", FALSE, "serial")>>]
      [] OTHER ->
            [st |-> [st EXCEPT !.el = Handle, !.port = Handle,
                                !.released.eventlog = 0, !.released.serial = 0],
             err |-> FALSE,
             events |-> <<Ev("localSetup", Handle, "", TRUE, "eventlog"),
                          Ev("localSetup", Handle, "", TRUE, "serial")>>]

localSetup(st, outcome) ==
    IF st.platform = "unix" THEN localSetupUnix(st, outcome) ELSE localSetupWindows(st, outcome)

\* ------------------------------------------------------------ Init
Opts == [LoggerName : Names, Debug : BOOLEAN, ProjectName : Names,
         DisableLocalLogging : BOOLEAN, DisableCloudLogging : BOOLEAN,
         Writers : WriterLists]

\* Does Init reach the cloud set-up when the local set-up lets it?
cloudRequested(opts) ==
    opts.LoggerName # "" /\ ~opts.DisableCloudLogging /\ opts.ProjectName # ""

\* Answers of the collaborators to one Init call; an answer nobody asks for
\* is pinned to one value.
InitEnvs(pf, opts) ==
    [setup : IF opts.LoggerName = "" \/ opts.DisableLocalLogging
             THEN {"ok"} ELSE SetupOutcomes(pf),
     clientOk : IF cloudRequested(opts) THEN BOOLEAN ELSE {TRUE},
     fail : IF cloudRequested(opts) THEN FailAt(opts.Writers) ELSE {-1}]

\* Mutant of initCloud: the flush goroutine is started before the error of
\* NewClient is looked at.
initCloud_LoopBeforeCheck(st, pre, env) ==
    IF ~env.clientOk
    THEN LET s2 == [st EXCEPT !.cloudLoggingClient = Nil, !.nLoops = st.nLoops + 1]
             lg == Internalf("Error", s2, env)
         IN  [st |-> s2,
              ret |-> IF lg.panicked THEN "panic" ELSE "nil",
              cloud |-> "failed",
              events |-> pre \o <<Ev("newClient", Nil, "", FALSE, ""),
                                  Ev("startLoop", Nil, "", TRUE, "")>> \o lg.events]
    ELSE LET h == Handle
             s2 == [st EXCEPT !.cloudLoggingClient = h, !.cloudLogger = h,
                              !.released.client = 0, !.nLoops = st.nLoops + 1]
         IN  [st |-> s2, ret |-> "nil", cloud |-> "on",
              events |-> pre \o <<Ev("newClient", h, "", TRUE, ""),
                                  Ev("newLogger", h, "", TRUE, ""),
                                  Ev("startLoop", h, "", TRUE, "")>>]

\* The cloud part of Init, entered when cloud logging is requested.
initCloud(st, pre, env) ==
    IF ~env.clientOk
    THEN \* cloudLoggingClient, err = NewClient(...) assigns nil; Errorf; return nil
         LET s2 == [st EXCEPT !.cloudLoggingClient = Nil]
             lg == Internalf("Error", s2, env)
         IN  [st |-> s2,
              ret |-> IF lg.panicked THEN "panic" ELSE "nil",
              cloud |-> "failed",
              events |-> pre \o <<Ev("newClient", Nil, "", FALSE, "")>> \o lg.events]
    ELSE LET h == Handle
             s2 == [st EXCEPT !.cloudLoggingClient = h, !.cloudLogger = h,
                              !.released.client = 0, !.nLoops = st.nLoops + 1]
         IN  [st |-> s2, ret |-> "nil", cloud |-> "on",
              events |-> pre \o <<Ev("newClient", h, "", TRUE, ""),
                                  Ev("newLogger", h, "", TRUE, ""),
                                  Ev("startLoop", h, "", TRUE, "")>>]

\* Mutant of InitCall: the options are stored before the name is validated.
InitCall_StoresBeforeValidating(opts, st, env) ==
    LET s1 == [st EXCEPT !.loggerName = opts.LoggerName,
                         !.debugEnabled = opts.Debug,
                         !.writers = opts.Writers]
        ls == IF ~opts.DisableLocalLogging
              THEN localSetup(s1, env.setup)
              ELSE [st |-> s1, err |-> FALSE, events |-> <<>>]
    IN  IF opts.LoggerName = ""
        THEN [st |-> s1, ret |-> "error", cloud |-> "none", events |-> <<>>]
        ELSE IF ls.err
             THEN [st |-> ls.st, ret |-> "error", cloud |-> "none", events |-> ls.events]
             ELSE IF ~opts.DisableCloudLogging /\ opts.ProjectName # ""
                  THEN initCloud(ls.st, ls.events, env)
                  ELSE [st |-> ls.st, ret |-> "nil", cloud |-> "off", events |-> ls.events]

\* Mutant of InitCall: the error of localSetup is not checked.
InitCall_IgnoresSetupError(opts, st, env) ==
    IF opts.LoggerName = ""
    THEN [st |-> st, ret |-> "error", cloud |-> "none", events |-> <<>>]
    ELSE LET s1 == [st EXCEPT !.loggerName = opts.LoggerName,
                              !.debugEnabled = opts.Debug,
                              !.writers = opts.Writers]
             ls == IF ~opts.DisableLocalLogging
                   THEN localSetup(s1, env.setup)
                   ELSE [st |-> s1, err |-> FALSE, events |-> <<>>]
         IN  IF ~opts.DisableCloudLogging /\ opts.ProjectName # ""
             THEN initCloud(ls.st, ls.events, env)
             ELSE [st |-> ls.st, ret |-> "nil", cloud |-> "off", events |-> ls.events]

\* Init(ctx, opts) in package state st.
InitCall(opts, st, env) ==
    IF opts.LoggerName = ""
    THEN [st |-> st, ret |-> "error", cloud |-> "none", events |-> <<>>]
    ELSE LET s1 == [st EXCEPT !.loggerName = opts.LoggerName,
                              !.debugEnabled = opts.Debug,
                              !.writers = opts.Writers]
             ls == IF ~opts.DisableLocalLogging
                   THEN localSetup(s1, env.setup)
                   ELSE [st |-> s1, err |-> FALSE, events |-> <<>>]
         IN  IF ls.err
             THEN [st |-> ls.st, ret |-> "error", cloud |-> "none", events |-> ls.events]
             ELSE IF ~opts.DisableCloudLogging /\ opts.ProjectName # ""
                  THEN initCloud(ls.st, ls.events, env)
                  ELSE [st |-> ls.st, ret |-> "nil", cloud |-> "off", events |-> ls.events]

\* ------------------------------------------------------------ Close
\* localClose() on unix: slWriter.Close() with no nil check.
localCloseUnix(st) ==
    IF st.slWriter = Nil
    THEN [st |-> st, events |-> <<Panic>>, panicked |-> TRUE]
    ELSE [st |-> [st EXCEPT !.released = Bump(st.released, "syslog")],
          events |-> <<Ev("localClose", st.slWriter, "", TRUE, "syslog")>>,
          panicked |-> FALSE]

\* localClose() on windows: each handle is closed when it is not nil.
localCloseWindows(st) ==
    LET r1 == IF st.el # Nil THEN Bump(st.released, "eventlog") ELSE st.released
        r2 == IF st.port # Nil THEN Bump(r1, "serial") ELSE r1
    IN  [st |-> [st EXCEPT !.released = r2],
         events |-> (IF st.el # Nil
                     THEN <<Ev("localClose", st.el, "", TRUE, "eventlog")>> ELSE <<>>)
                 \o (IF st.port # Nil
                     THEN <<Ev("localClose", st.port, "", TRUE, "serial")>> ELSE <<>>),
         panicked |-> FALSE]

localClose(st) ==
    IF st.platform = "unix" THEN localCloseUnix(st) ELSE localCloseWindows(st)

CloseEnvs(ws) == [pingOk : BOOLEAN, fail : FailAt(ws)]

\* Ping on a client whose connection Close already shut down returns an error.
pingAnswer(st, env) == env.pingOk /\ st.released.client = 0

\* The cloud part of Close, entered when cloudLoggingClient != nil.
closeCloud(st, env) ==
    IF ~pingAnswer(st, env)
    THEN LET lg == Internalf("Warning", st, env)
         IN  [st |-> st,
              events |-> <<Ev("ping", st.cloudLoggingClient, "", FALSE, "")>> \o lg.events,
              panicked |-> lg.panicked]
    ELSE [st |-> [st EXCEPT !.released = Bump(st.released, "client")],
          events |-> <<Ev("ping", st.cloudLoggingClient, "", TRUE, ""),
                       Ev("flush", st.cloudLogger, "", TRUE, ""),
                       Ev("clientClose", st.cloudLoggingClient, "", TRUE, "")>>,
          panicked |-> FALSE]

\* Close() in package state st.
CloseCall(st, env) ==
    LET c == IF st.cloudLoggingClient # Nil
             THEN closeCloud(st, env)
             ELSE [st |-> st, events |-> <<>>, panicked |-> FALSE]
    IN  IF c.panicked
        THEN c
        ELSE LET l == localClose(c.st)
             IN  [st |-> l.st, events |-> c.events \o l.events, panicked |-> l.panicked]

\* ------------------------------------------------------------ Fatalf
\* Fatalf: Log at Critical, the deferred functions, Close, os.Exit(1).
FatalfCall(st, funcs, env) ==
    LET lg == Wrapperf("Critical", st, env)
    IN  IF lg.panicked
        THEN [st |-> st, events |-> lg.events, panicked |-> TRUE]
        ELSE LET fs == [i \in 1 .. Len(funcs) |-> Ev("callback", funcs[i], "", TRUE, "")]
                 c == CloseCall(st, env)
                 cl == <<Ev("call", Nil, "", TRUE, "Close")>> \o c.events
             IN  IF c.panicked
                 THEN [st |-> c.st, events |-> lg.events \o fs \o cl, panicked |-> TRUE]
                 ELSE [st |-> c.st,
                       events |-> lg.events \o fs \o cl \o <<Ev("exit", 1, "", TRUE, "")>>,
                       panicked |-> FALSE]

\* ------------------------------------------------------------ the state machine
Apply(s) ==
    /\ loggerName' = s.loggerName
    /\ debugEnabled' = s.debugEnabled
    /\ writers' = s.writers
    /\ cloudLoggingClient' = s.cloudLoggingClient
    /\ cloudLogger' = s.cloudLogger
    /\ slWriter' = s.slWriter
    /\ el' = s.el
    /\ port' = s.port
    /\ released' = s.released
    /\ nLoops' = s.nLoops
    /\ UNCHANGED <<platform, stdoutEnabled>>

Threads == 1 .. NThreads

Call(op, arg, events, ret) == [op |-> op, arg |-> arg, events |-> events, ret |-> ret]

\* The process before the host's first call: every package variable has its
\* zero value; the host may already have filled DeferredFatalFuncs.
InitDispatcher ==
    /\ platform \in Platforms
    /\ loggerName = ""
    /\ debugEnabled = FALSE
    /\ writers = <<>>
    /\ cloudLoggingClient = Nil
    /\ cloudLogger = Nil
    /\ stdoutEnabled = FALSE
    /\ slWriter = Nil
    /\ el = Nil
    /\ port = Nil
    /\ DeferredFatalFuncs = <<>>
    /\ released = [client |-> 0, syslog |-> 0, eventlog |-> 0, serial |-> 0]
    /\ nLoops = 0
    /\ inited = FALSE
    /\ proc = "running"
    /\ lastInit = [ret |-> "none", cloud |-> "none", localDisabled |-> FALSE]
    /\ thr = [t \in Threads |-> [pc |-> "idle", e |-> Entry("Info"), i |-> 0]]
    /\ recv = EmptyBag
    /\ last = Call("none", "", <<>>, "none")

\* No pure function is under study.
NoInput == [f |-> "none"]
NoOutput == [f |-> "none"]

Init == InitDispatcher /\ input = NoInput /\ output = NoOutput

\* The host is between two calls.
Idle == proc = "running" /\ last.op = "none"

\* The host calls Init(ctx, opts).
DoInit ==
    /\ UNCHANGED <<conc, pure>>
    /\ Idle
    /\ \E opts \in Opts : \E env \in InitEnvs(platform, opts) :
          LET r == InitCall(opts, Cur, env)
          IN  /\ r.st.nLoops <= MaxLoops
              /\ Apply(r.st)
              /\ inited' = (inited \/ r.ret = "nil")
              /\ proc' = IF r.ret = "panic" THEN "panicked" ELSE proc
              /\ lastInit' = [ret |-> r.ret, cloud |-> r.cloud,
                              localDisabled |-> opts.DisableLocalLogging]
              /\ last' = Call("Init", opts, r.events, r.ret)
    /\ UNCHANGED DeferredFatalFuncs

\* The host calls Log(e) directly.
DoLog ==
    /\ UNCHANGED <<conc, pure>>
    /\ Idle
    /\ inited
    /\ \E e \in Entries : \E env \in LogEnvs(writers) :
          LET r == Log(e, DirectStack, Cur, env)
          IN  /\ proc' = IF r.panicked THEN "panicked" ELSE proc
              /\ last' = Call("Log", e, r.events, IF r.panicked THEN "panic" ELSE "none")
    /\ UNCHANGED <<platform, dispatcher, DeferredFatalFuncs, released, nLoops, inited,
                   lastInit>>

\* The host calls Debugf, Infof, Warningf or Errorf.
DoWrapper ==
    /\ UNCHANGED <<conc, pure>>
    /\ Idle
    /\ inited
    /\ \E sev \in {"Debug", "Info", "Warning", "Error"} : \E env \in LogEnvs(writers) :
          LET r == Wrapperf(sev, Cur, env)
          IN  /\ proc' = IF r.panicked THEN "panicked" ELSE proc
              /\ last' = Call("Wrapper", Entry(sev), r.events,
                              IF r.panicked THEN "panic" ELSE "none")
    /\ UNCHANGED <<platform, dispatcher, DeferredFatalFuncs, released, nLoops, inited,
                   lastInit>>

\* The host calls Close().
DoClose ==
    /\ UNCHANGED <<conc, pure>>
    /\ Idle
    /\ inited
    /\ \E env \in CloseEnvs(writers) :
          LET r == CloseCall(Cur, env)
          IN  /\ Apply(r.st)
              /\ proc' = IF r.panicked THEN "panicked" ELSE proc
              /\ last' = Call("Close", "", r.events, IF r.panicked THEN "panic" ELSE "none")
    /\ UNCHANGED <<DeferredFatalFuncs, inited, lastInit>>

\* The host calls Fatalf(...).
DoFatalf ==
    /\ UNCHANGED <<conc, pure>>
    /\ Idle
    /\ inited
    /\ \E env \in CloseEnvs(writers) :
          LET r == FatalfCall(Cur, DeferredFatalFuncs, env)
          IN  /\ Apply(r.st)
              /\ proc' = IF r.panicked THEN "panicked" ELSE "exited"
              /\ last' = Call("Fatalf", "", r.events, IF r.panicked THEN "panic" ELSE "exit")
    /\ UNCHANGED <<DeferredFatalFuncs, inited, lastInit>>

\* SetDebugLogging(enabled).
SetDebugLogging ==
    /\ UNCHANGED <<conc, pure>>
    /\ Idle
    /\ \E enabled \in BOOLEAN :
          /\ debugEnabled' = enabled
          /\ last' = Call("SetDebugLogging", enabled, <<>>, "none")
    /\ UNCHANGED <<platform, loggerName, writers, cloudLoggingClient, cloudLogger,
                   stdoutEnabled, slWriter, el, port, DeferredFatalFuncs,
                   released, nLoops, inited, proc, lastInit>>

\* The host fills the exported DeferredFatalFuncs.
SetFatalFuncs ==
    /\ UNCHANGED <<conc, pure>>
    /\ Idle
    /\ DeferredFatalFuncs = <<>>
    /\ DeferredFatalFuncs' = [i \in 1 .. MaxFatalFuncs |-> i]
    /\ last' = Call("SetFatalFuncs", "", <<>>, "none")
    /\ UNCHANGED <<platform, dispatcher, released, nLoops, inited, proc, lastInit>>

\* One iteration of a flush goroutine started by Init: after its sleep it
\* calls Flush on whatever the package variable cloudLogger holds now.
FlushLoop ==
    /\ UNCHANGED <<conc, pure>>
    /\ Idle
    /\ nLoops > 0
    /\ last' = Call("FlushLoop", "", <<Ev("flush", cloudLogger, "", TRUE, "")>>, "none")
    /\ UNCHANGED <<platform, dispatcher, DeferredFatalFuncs, released, nLoops,
                   inited, proc, lastInit>>

\* The call has returned to the host: its trace is dropped.
Return ==
    /\ UNCHANGED <<conc, pure>>
    /\ proc = "running"
    /\ last.op # "none"
    /\ last' = Call("none", "", <<>>, "none")
    /\ UNCHANGED <<platform, dispatcher, DeferredFatalFuncs, released, nLoops,
                   inited, proc, lastInit>>

Next ==
    \/ DoInit
    \/ DoLog
    \/ DoWrapper
    \/ DoClose
    \/ DoFatalf
    \/ SetDebugLogging
    \/ SetFatalFuncs
    \/ FlushLoop
    \/ Return

Spec == Init /\ [][Next]_vars

\* ------------------------------------------------------------ concurrent Log calls
\* Several goroutines call Log at the same time once Init has returned nil.
\* A goroutine runs Log statement by statement; every step reads the package
\* variables as they are at that moment.  The sinks answer without error
\* here (errors are dropped by Log and change nothing in its control flow).
ConcSeverities == {"Debug", "Info"}
NoFail == [fail |-> -1]

Deliver(t, events) ==
    recv (+) SetToBag({[k |-> events[j].k, id |-> events[j].id, t |-> t] : j \in DOMAIN events})

CanStep(t, pc) == proc = "running" /\ inited /\ last.op = "none" /\ thr[t].pc = pc

\* Log's first statement: return when the entry is suppressed; else enrich.
LogEnter(t) ==
    /\ UNCHANGED pure
    /\ CanStep(t, "idle")
    /\ \E sev \in ConcSeverities :
          thr' = [thr EXCEPT ![t] = [pc |-> IF suppressed(Entry(sev), Cur)
                                            THEN "done" ELSE "local",
                                     e |-> Entry(sev), i |-> 0]]
    /\ UNCHANGED <<platform, dispatcher, DeferredFatalFuncs, released, nLoops, inited,
                   proc, lastInit, recv, last>>

\* local(e)
LogLocal(t) ==
    /\ UNCHANGED pure
    /\ CanStep(t, "local")
    /\ LET r == local(thr[t].e, Cur, NoFail)
       IN  /\ proc' = IF r.panicked THEN "panicked" ELSE proc
           /\ recv' = IF r.panicked THEN recv ELSE Deliver(t, r.events)
           /\ thr' = [thr EXCEPT ![t].pc = IF r.panicked THEN "panic" ELSE "writers",
                                 ![t].i = 1]
    /\ UNCHANGED <<platform, dispatcher, DeferredFatalFuncs, released, nLoops, inited,
                   lastInit, last>>

\* One iteration of the loop over writers, or its end.
LogWrite(t) ==
    /\ UNCHANGED pure
    /\ CanStep(t, "writers")
    /\ LET ws == writeAll(thr[t].e, Cur, NoFail)
           i == thr[t].i
       IN  IF i <= Len(ws)
           THEN /\ recv' = Deliver(t, <<ws[i]>>)
                /\ thr' = [thr EXCEPT ![t].i = i + 1]
           ELSE /\ recv' = recv
                /\ thr' = [thr EXCEPT ![t].pc = "cloud"]
    /\ UNCHANGED <<platform, dispatcher, DeferredFatalFuncs, released, nLoops, inited,
                   proc, lastInit, last>>

\* if cloudLogger != nil { cloudLogger.Log(...) }, then Log returns.
LogCloud(t) ==
    /\ UNCHANGED pure
    /\ CanStep(t, "cloud")
    /\ recv' = Deliver(t, cloudSubmit(thr[t].e, Cur))
    /\ thr' = [thr EXCEPT ![t].pc = "done"]
    /\ UNCHANGED <<platform, dispatcher, DeferredFatalFuncs, released, nLoops, inited,
                   proc, lastInit, last>>

\* Init calls are made until one returns nil; the goroutines start after it.
InitFirst == ~inited /\ DoInit

LogStep == \E t \in Threads : LogEnter(t) \/ LogLocal(t) \/ LogWrite(t) \/ LogCloud(t)

NextConc ==
    \/ InitFirst
    \/ Return
    \/ \E t \in Threads : LogEnter(t)
    \/ \E t \in Threads : LogLocal(t)
    \/ \E t \in Threads : LogWrite(t)
    \/ \E t \in Threads : LogCloud(t)

SpecConc == Init /\ [][NextConc]_vars

\* ------------------------------------------------------------ reading a trace
LogOps == {"Log", "Wrapper"}
LocalKinds == {"syslog", "serial", "eventlog"}

Pos(ev, k) == {i \in DOMAIN ev : ev[i].k = k}
Has(ev, k) == Pos(ev, k) # {}
Failed(ev, k) == \E i \in Pos(ev, k) : ~ev[i].ok

\* Every writer of the list got exactly one write, carrying severity sev.
WritersServed(ev, ws, sev) ==
    \A w \in 1 .. Len(ws) :
        Cardinality({i \in Pos(ev, "writer") : ev[i].id = ws[w] /\ ev[i].sev = sev}) = 1

\* Every local handle that is set up got the entry.
LocalServed(ev) ==
    /\ (platform = "unix" /\ slWriter # Nil) => Has(ev, "syslog")
    /\ (platform = "windows" /\ port # Nil) => Has(ev, "serial")
    /\ (platform = "windows" /\ el # Nil) => Has(ev, "eventlog")

\* ------------------------------------------------------------ C1
\* C1 (as claimed): when Init is called with cloud forwarding requested and
\* the cloud client set-up fails, Init returns nil, the failure is written as
\* an Error entry to the local sink and the writers, no cloud logger is left
\* in place, and every later non-suppressed Log call (until the next Init)
\* is delivered to the local sink and every writer and not to the cloud.
C1_CloudSetupFailureIsNonFatal ==
    /\ (last.op = "Init" /\ cloudRequested(last.arg) /\ Failed(last.events, "newClient"))
         => /\ last.ret = "nil"
            /\ WritersServed(last.events, writers, "Error")
            /\ LocalServed(last.events)
            /\ cloudLogger = Nil
            /\ ~Has(last.events, "cloud")
    /\ (last.op \in LogOps /\ lastInit.cloud = "failed" /\ ~suppressed(last.arg, Cur))
         => /\ last.ret = "none"
            /\ WritersServed(last.events, writers, last.arg.Severity)
            /\ (last.arg.Severity # "Other" => LocalServed(last.events))
            /\ ~Has(last.events, "cloud")

\* ------------------------------------------------------------ C2
\* C2: Init called with an empty logger name returns an error before any
\* other step: no local set-up, no cloud client, no flush loop, and no
\* package variable is assigned, whatever the other options are.
C2_EmptyNameFailsFast ==
    [][(last.op = "none" /\ last'.op = "Init" /\ last'.arg.LoggerName = "")
         => /\ last'.ret = "error"
            /\ last'.events = <<>>
            /\ UNCHANGED <<dispatcher, released, nLoops>>]_vars

\* An Init call with an empty name and every other option asking for work.
C2_Witness ==
    /\ last.op = "Init"
    /\ last.arg.LoggerName = ""
    /\ last.arg.ProjectName # ""
    /\ ~last.arg.DisableLocalLogging
    /\ ~last.arg.DisableCloudLogging
    /\ last.arg.Writers # <<>>
    /\ last.ret = "error"

\* ------------------------------------------------------------ C3
\* C3: when local logging is not disabled and the local set-up fails, Init
\* returns an error without creating a cloud client or starting a flush loop;
\* when local logging is disabled the local set-up is never attempted.
C3_LocalSetupFailureIsFatal ==
    [][(last.op = "none" /\ last'.op = "Init" /\ last'.arg.LoggerName # "")
         => /\ (~last'.arg.DisableLocalLogging /\ Failed(last'.events, "localSetup"))
                 => /\ last'.ret = "error"
                    /\ ~Has(last'.events, "newClient")
                    /\ ~Has(last'.events, "startLoop")
                    /\ UNCHANGED <<cloudLoggingClient, cloudLogger, nLoops>>
            /\ last'.arg.DisableLocalLogging
                 => /\ ~Has(last'.events, "localSetup")
                    /\ UNCHANGED <<slWriter, el, port>>]_vars

\* A failed local set-up in a call that also asked for cloud logging.
C3_Witness ==
    /\ last.op = "Init"
    /\ ~last.arg.DisableLocalLogging
    /\ cloudRequested(last.arg)
    /\ Failed(last.events, "localSetup")
    /\ last.ret = "error"

\* ------------------------------------------------------------ C4
\* C4: a Log call whose entry is Debug while the debug flag is off does
\* nothing at all (no enrichment, no write to any sink); every other call
\* enriches the entry first and goes on to the sinks.
C4_DebugSuppression ==
    last.op \in LogOps =>
        IF last.arg.Severity = "Debug" /\ ~debugEnabled
        THEN last.events = <<>>
        ELSE /\ last.events # <<>>
             /\ last.events[1].k = "enrich"
             /\ last.events[1].sev = last.arg.Severity

\* A suppressed Debug entry while writers and a cloud logger are in place.
C4_Witness ==
    /\ last.op \in LogOps
    /\ last.arg.Severity = "Debug"
    /\ ~debugEnabled
    /\ writers # <<>>
    /\ cloudLogger # Nil
    /\ (slWriter # Nil \/ el # Nil)

\* ------------------------------------------------------------ C5
\* C5: when the write to the local sink or to one writer returns an error,
\* the same Log call still writes the entry once to every writer, submits it
\* to the cloud logger when there is one, and returns normally.
C5_SinkFailureIsolation ==
    (last.op \in LogOps /\ \E k \in LocalKinds \cup {"writer"} : Failed(last.events, k))
        => /\ last.ret = "none"
           /\ WritersServed(last.events, writers, last.arg.Severity)
           /\ (cloudLogger # Nil => Cardinality(Pos(last.events, "cloud")) = 1)

\* The first of two writers fails while a cloud logger is in place.
C5_Witness ==
    /\ last.op \in LogOps
    /\ Len(writers) >= 2
    /\ cloudLogger # Nil
    /\ \E i \in Pos(last.events, "writer") : last.events[i].id = writers[1] /\ ~last.events[i].ok

\* ------------------------------------------------------------ C6
\* The local handles that are set up, by kind.
LocalHandles ==
    (IF platform = "unix" /\ slWriter # Nil THEN {"syslog"} ELSE {})
        \cup (IF platform = "windows" /\ el # Nil THEN {"eventlog"} ELSE {})
        \cup (IF platform = "windows" /\ port # Nil THEN {"serial"} ELSE {})

\* C6 (as claimed): in a Close call made while a cloud client exists the
\* reachability probe comes first; when the backend is reachable the flush
\* precedes the release of the client; when it is not, no flush is issued
\* and a warning is written through the local sink while that sink is still
\* open; in both cases the call goes on to release the local sink, and that
\* release is its last step.
C6_CloseOrdering ==
    [][(last.op = "none" /\ last'.op = "Close" /\ cloudLoggingClient # Nil) =>
        LET ev == last'.events
        IN  /\ ev # <<>>
            /\ ev[1].k = "ping"
            /\ ev[1].ok => \E i \in Pos(ev, "flush") : \E j \in Pos(ev, "clientClose") : i < j
            /\ ~ev[1].ok =>
                  /\ ~Has(ev, "flush")
                  /\ \A h \in LocalHandles :
                        /\ released[h] = 0
                        /\ \E i \in Pos(ev, h) : ev[i].sev = "Warning"
            /\ last'.ret # "panic"
            /\ \A h \in LocalHandles :
                  \E j \in Pos(ev, "localClose") : ev[j].x = h
            /\ \A j \in Pos(ev, "localClose") :
                  \A i \in DOMAIN ev : ev[i].k # "localClose" => i < j]_vars

\* The order of the steps alone, in every Close call (the part of C6 that
\* the code keeps): probe first, flush before the client's release, no flush
\* after a failed probe, and nothing after the local release.
CloseStepsInOrder ==
    last.op = "Close" =>
        LET ev == last.events
        IN  /\ cloudLoggingClient # Nil => (ev # <<>> /\ ev[1].k = "ping")
            /\ \A i \in Pos(ev, "flush") : \A j \in Pos(ev, "clientClose") : i < j
            /\ Failed(ev, "ping") => ~Has(ev, "flush") /\ ~Has(ev, "clientClose")
            /\ \A j \in Pos(ev, "localClose") :
                  \A i \in DOMAIN ev : ev[i].k # "localClose" => i < j

\* ------------------------------------------------------------ C7
\* C7 (as claimed): a Close call made after an earlier Close does not panic
\* and does not release again a handle the earlier call released.
C7_CloseTwice ==
    [][(last.op = "none" /\ last'.op = "Close"
          /\ \E k \in DOMAIN released : released[k] >= 1)
         => /\ last'.ret # "panic"
            /\ \A k \in DOMAIN released : released[k] >= 1 => released'[k] = released[k]]_vars

\* ------------------------------------------------------------ C8
\* C8 (as claimed): when Close finds the cloud backend unreachable it issues
\* no flush, still releases the cloud client and the local sink, and
\* returns an error to its caller.
C8_CloseUnreachable ==
    (last.op = "Close" /\ Failed(last.events, "ping")) =>
        /\ ~Has(last.events, "flush")
        /\ Has(last.events, "clientClose")
        /\ Has(last.events, "localClose")
        /\ last.ret = "error"

\* ------------------------------------------------------------ C9
\* C9 (as claimed): every Fatalf call dispatches one Critical entry, then
\* runs each function of DeferredFatalFuncs once in list order, then calls
\* Close, then exits the process with status 1; no step is skipped.
C9_FatalfOrder ==
    last.op = "Fatalf" =>
        LET ev == last.events
            n == Len(DeferredFatalFuncs)
            cb == Pos(ev, "callback")
        IN  /\ Cardinality({i \in Pos(ev, "enrich") : ev[i].sev = "Critical"}) = 1
            /\ ev[1].k = "enrich" /\ ev[1].sev = "Critical"
            /\ Cardinality(cb) = n
            /\ \A i \in 1 .. n : \E p \in cb :
                  /\ ev[p].id = DeferredFatalFuncs[i]
                  /\ Cardinality({q \in cb : q < p}) = i - 1
            /\ Cardinality(Pos(ev, "call")) = 1
            /\ \A c \in Pos(ev, "call") :
                  /\ \A p \in cb : p < c
                  /\ \A i \in DOMAIN ev : ev[i].sev \in {"Critical", "Crit"} => i < c
            /\ ev[Len(ev)].k = "exit"
            /\ ev[Len(ev)].id # 0
            /\ proc = "exited"

\* ------------------------------------------------------------ C10
\* What one finished Log call of goroutine t must have put into the sinks.
Got(k, id, t) == CopiesIn([k |-> k, id |-> id, t |-> t], recv)

DeliveredOnce(t) ==
    LET e == thr[t].e
        n == IF suppressed(e, Cur) THEN 0 ELSE 1
    IN  /\ \A w \in 1 .. Len(writers) : Got("writer", writers[w], t) = n
        /\ cloudLogger # Nil => Got("cloud", cloudLogger, t) = n
        /\ (platform = "unix" /\ slWriter # Nil) => Got("syslog", slWriter, t) = n
        /\ (platform = "windows" /\ el # Nil) => Got("eventlog", el, t) = n
        /\ (platform = "windows" /\ port # Nil) => Got("serial", port, t) = n

\* C10 (as claimed): with Init completed, concurrent Log calls are safe in
\* every interleaving: no call brings the process down, no sink gets an
\* entry of a call twice, and a call that has returned has delivered its
\* entry exactly once to each sink that is in place (not at all when the
\* entry is suppressed).
C10_ConcurrentLog ==
    /\ \A t \in Threads : thr[t].pc # "panic"
    /\ \A x \in BagToSet(recv) : CopiesIn(x, recv) = 1
    /\ \A t \in Threads : thr[t].pc = "done" => DeliveredOnce(t)

\* The frame part of C10: no step of a Log call assigns a package variable.
LogWritesNoSharedState == [][LogStep => UNCHANGED <<dispatcher, released, nLoops>>]_vars

\* C10 without the crash: what the calls that return deliver.
ConcurrentDelivery ==
    /\ \A x \in BagToSet(recv) : CopiesIn(x, recv) = 1
    /\ \A t \in Threads : thr[t].pc = "done" => DeliveredOnce(t)

\* ------------------------------------------------------------ C11
\* C11 (as claimed): the package variables of the dispatcher (client and
\* logger handles, local-sink handles, writer list, debug flag, logger name)
\* are assigned only in a call of Init or Close; every other public
\* operation leaves all of them unchanged.
C11_OnlyInitAndCloseWrite ==
    [][last'.op \notin {"Init", "Close", "none"} => UNCHANGED dispatcher]_vars

\* The part of C11 that the code keeps: Log, the wrappers, Fatalf and the
\* flush goroutine assign none of the package variables.
LogPathIsReadOnly ==
    [][last'.op \in {"Log", "Wrapper", "Fatalf", "FlushLoop"} => UNCHANGED dispatcher]_vars

\* ------------------------------------------------------------ C12
\* The source frames recorded for the entry of the last call when the host
\* left the call depth at its default (in Fatalf: for its Critical entry).
DefaultDepthSources ==
    IF last.op = "Wrapper" \/ (last.op = "Log" /\ last.arg.CallDepth = 0)
    THEN {last.events[i].x : i \in Pos(last.events, "enrich")}
    ELSE IF last.op = "Fatalf"
         THEN {last.events[i].x : i \in {j \in Pos(last.events, "enrich") :
                                              last.events[j].sev = "Critical"}}
         ELSE {}

\* C12 (as claimed): for every Log call with the default call depth, made
\* directly or through Debugf/Infof/Warningf/Errorf/Fatalf, the recorded
\* source is the frame of the user function that called the public entry
\* point: never a frame of the package, never the caller of that function.
C12_CallerAttribution ==
    last.op \in {"Log", "Wrapper", "Fatalf"} => DefaultDepthSources \subseteq {"user"}

\* The part of C12 that the code keeps: through a wrapper the default depth
\* names the user's frame.
WrapperAttribution ==
    last.op \in {"Wrapper", "Fatalf"} => DefaultDepthSources \subseteq {"user"}

\* ------------------------------------------------------------ C13
\* The five internal levels.
KnownSeverities == {"Debug", "Info", "Warning", "Error", "Critical"}

\* C13: the severity handed to the cloud logger is the one of the same name
\* for each of the five internal levels and Default for every other value;
\* every Log call that reaches the cloud branch submits with that severity.
C13_SeverityMappingTotal ==
    /\ \A sev \in Severities :
          cloudSeverity(sev) = IF sev \in KnownSeverities THEN sev ELSE "Default"
    /\ (last.op \in LogOps /\ cloudLogger # Nil /\ ~suppressed(last.arg, Cur)
          /\ last.ret # "panic")
         => /\ Cardinality(Pos(last.events, "cloud")) = 1
            /\ \A i \in Pos(last.events, "cloud") :
                  last.events[i].sev = IF last.arg.Severity \in KnownSeverities
                                       THEN last.arg.Severity ELSE "Default"

\* An entry whose severity is none of the five reached the cloud logger.
C13_Witness ==
    /\ last.op = "Log"
    /\ last.arg.Severity \notin KnownSeverities
    /\ \E i \in Pos(last.events, "cloud") : last.events[i].sev = "Default"

\* ------------------------------------------------------------ C14
\* What a call did apart from its submission to the cloud logger.
NonCloud(ev) == SelectSeq(ev, LAMBDA x : x.k # "cloud")

\* C14: an entry submitted to the cloud logger carries its structured
\* payload when it has one and the enriched entry itself when it has none,
\* in one submission; whether it has one changes nothing in what the local
\* sink and the writers get.
C14_PayloadChoice ==
    /\ (last.op \in LogOps) =>
          /\ Cardinality(Pos(last.events, "cloud")) <= 1
          /\ \A i \in Pos(last.events, "cloud") :
                last.events[i].x = IF last.arg.Payload THEN "structured" ELSE "entry"
    /\ \A e \in Entries : \A env \in LogEnvs(writers) :
          LET a == Log(e, DirectStack, Cur, env)
              b == Log([e EXCEPT !.Payload = ~e.Payload], DirectStack, Cur, env)
          IN  NonCloud(a.events) = NonCloud(b.events) /\ a.panicked = b.panicked

\* An entry with a structured payload went to a writer and to the cloud.
C14_Witness ==
    /\ last.op = "Log"
    /\ last.arg.Payload
    /\ Has(last.events, "writer")
    /\ \E i \in Pos(last.events, "cloud") : last.events[i].x = "structured"

\* ------------------------------------------------------------ parseMIGLabels
\* A MIG string is modelled by its segments: the pieces between the "/"
\* characters, so that "" is the one-segment string <<"">> and "a//b" is
\* <<"a", "", "b">>.  The pattern of parseMIGLabels constrains segments only
\* ([^/]+ is any non-empty segment), so nothing is lost.
MaxSegments == 7
MigSegments == {"", "projects", "zones", "regions", "instanceGroupManagers", "g"}
MigStrings(n) == [1 .. n -> MigSegments]

migNameLabel == "compute.googleapis.com/instance_group_manager/name"
migZoneLabel == "compute.googleapis.com/instance_group_manager/zone"
migRegionLabel == "compute.googleapis.com/instance_group_manager/region"

\* Mutant of migRe: the pattern is not anchored at the end of the string.
migRe_Unanchored(mig) ==
    IF /\ Len(mig) >= 6
       /\ mig[1] = "projects"
       /\ mig[2] # ""
       /\ mig[3] \in {"zones", "regions"}
       /\ mig[4] # ""
       /\ mig[5] = "instanceGroupManagers"
       /\ mig[6] # ""
    THEN <<mig, mig[3], mig[4], mig[6]>>
    ELSE <<>>

\* migRe.FindStringSubmatch(mig) for the pattern
\* ^projects/[^/]+/(zones|regions)/([^/]+)/instanceGroupManagers/([^/]+)$ :
\* <<>> for nil, else the whole match followed by the three groups.
migRe(mig) ==
    IF /\ Len(mig) = 6
       /\ mig[1] = "projects"
       /\ mig[2] # ""
       /\ mig[3] \in {"zones", "regions"}
       /\ mig[4] # ""
       /\ mig[5] = "instanceGroupManagers"
       /\ mig[6] # ""
    THEN <<mig, mig[3], mig[4], mig[6]>>
    ELSE <<>>

\* The empty label map.
NoLabels == <<>>

\* parseMIGLabels(mig): matches[i] of the code is matches[i + 1] here.
parseMIGLabels(mig) ==
    IF mig = <<"">>
    THEN NoLabels
    ELSE LET matches == migRe(mig)
         IN  IF matches = <<>>
             THEN NoLabels
             ELSE LET locationLabel == IF matches[2] = "zones" THEN migZoneLabel
                                       ELSE migRegionLabel
                  IN  (migNameLabel :> matches[4]) @@ (locationLabel :> matches[3])

\* Every package variable and every other part of the state stays as it is.
DispatcherIdle ==
    UNCHANGED <<platform, dispatcher, DeferredFatalFuncs, released, nLoops, inited,
                proc, lastInit, thr, recv, last>>

\* parseMIGLabels applied to one MIG string.
InitMIG ==
    /\ InitDispatcher
    /\ platform = "unix"
    /\ \E n \in 1 .. MaxSegments : \E mig \in MigStrings(n) :
          input = [f |-> "parseMIGLabels", mig |-> mig]
    /\ output = NoOutput

ParseMIG ==
    /\ input.f = "parseMIGLabels"
    /\ output = NoOutput
    /\ output' = [f |-> "parseMIGLabels", labels |-> parseMIGLabels(input.mig)]
    /\ UNCHANGED input
    /\ DispatcherIdle

SpecMIG == InitMIG /\ [][ParseMIG]_vars

\* ------------------------------------------------------------ C15
\* The string has exactly the form projects/<p>/<kw>/<l>/instanceGroupManagers/<g>
\* with <p>, <l> and <g> non-empty and free of "/".
HasMIGForm(mig, kw) ==
    /\ Len(mig) = 6
    /\ mig[1] = "projects" /\ mig[3] = kw /\ mig[5] = "instanceGroupManagers"
    /\ mig[2] # "" /\ mig[4] # "" /\ mig[6] # ""

\* C15: for projects/<p>/zones/<z>/instanceGroupManagers/<g> the result is
\* exactly the group-name label with value <g> and the zone label with value
\* <z>; with regions/<r> it is the group-name label and the region label with
\* value <r>, a different key, never both; for the empty string and every
\* string that does not match the whole pattern it is the empty label map.
C15_ParseMIGLabels ==
    output.f = "parseMIGLabels" =>
        LET mig == input.mig
            labels == output.labels
        IN  /\ migZoneLabel # migRegionLabel
            /\ HasMIGForm(mig, "zones") =>
                  /\ DOMAIN labels = {migNameLabel, migZoneLabel}
                  /\ labels[migNameLabel] = mig[6]
                  /\ labels[migZoneLabel] = mig[4]
            /\ HasMIGForm(mig, "regions") =>
                  /\ DOMAIN labels = {migNameLabel, migRegionLabel}
                  /\ labels[migNameLabel] = mig[6]
                  /\ labels[migRegionLabel] = mig[4]
            /\ (~HasMIGForm(mig, "zones") /\ ~HasMIGForm(mig, "regions")) =>
                  labels = NoLabels

\* A regional group whose location and name differ has been parsed.
C15_Witness ==
    /\ output.f = "parseMIGLabels"
    /\ input.mig = <<"projects", "g", "regions", "zones", "instanceGroupManagers", "g">>
    /\ output.labels[migRegionLabel] = "zones"

\* A string with one segment too many has been parsed to the empty map.
ExtraSegmentParsed ==
    /\ output.f = "parseMIGLabels"
    /\ Len(input.mig) = 7
    /\ HasMIGForm(SubSeq(input.mig, 1, 6), "zones")
    /\ output.labels = NoLabels

\* ------------------------------------------------------------ metadata provider
\* A metadata provider: the fixed-value one of the tests (fakeGCEMetadata)
\* or, with live set, gceMetadataProvider, whose fields are then what the
\* metadata server answers ("" for a lookup that fails).
Providers ==
    [live : BOOLEAN, isGKE : BOOLEAN, isGCE : BOOLEAN,
     instanceName : {"", "n"}, instanceID : {"", "42"}, zone : {"", "z"},
     projectID : {"", "p"}, clusterName : {"", "c"}]

K8sClusterName(m) == m.clusterName
InstanceName(m) == m.instanceName
InstanceID(m) == m.instanceID
Zone(m) == m.zone
ProjectID(m) == m.projectID

\* Mutant of OnGKE: the cluster name decides for the fixed-value provider too.
OnGKE_FromClusterName(m) == K8sClusterName(m) # ""

\* OnGKE: gceMetadataProvider derives it from the cluster name; the
\* fixed-value provider returns its field.
OnGKE(m) == IF m.live THEN K8sClusterName(m) # "" ELSE m.isGKE

\* Mutant of OnGCE: the provider never reports a compute instance.
OnGCE_Never(m) == FALSE

\* Mutant of OnGCE: the provider always reports a compute instance.
OnGCE_Always(m) == TRUE

OnGCE(m) == m.isGCE

\* ------------------------------------------------------------ resolver
\* resolve(provider): the monitored resource (type and labels) and the
\* common labels, by the three cases of the resolver.
resolve(m) ==
    IF OnGKE(m)
    THEN [type |-> "k8s_node",
          labels |-> ("cluster_name" :> K8sClusterName(m)) @@ ("location" :> Zone(m))
                     @@ ("node_name" :> InstanceName(m)) @@ ("project_id" :> ProjectID(m)),
          common |-> NoLabels]
    ELSE IF ~OnGCE(m)
         THEN [type |-> "", labels |-> NoLabels, common |-> NoLabels]
         ELSE [type |-> "gce_instance",
               labels |-> ("instance_id" :> InstanceID(m)) @@ ("project_id" :> ProjectID(m))
                          @@ ("zone" :> Zone(m)),
               common |-> IF InstanceName(m) # ""
                          THEN ("instance_name" :> InstanceName(m)) ELSE NoLabels]

\* The resolver applied to one provider.
InitResolve ==
    /\ InitDispatcher
    /\ platform = "unix"
    /\ \E m \in Providers : input = [f |-> "resolve", md |-> m]
    /\ output = NoOutput

Resolve ==
    /\ input.f = "resolve"
    /\ output = NoOutput
    /\ output' = [f |-> "resolve", res |-> resolve(input.md)]
    /\ UNCHANGED input
    /\ DispatcherIdle

SpecResolve == InitResolve /\ [][Resolve]_vars

\* What the provider of the input reports, read off its fields.
ReportsClusterNode == IF input.md.live THEN input.md.clusterName # "" ELSE input.md.isGKE
ReportsComputeInstance == input.md.isGCE

SpecFair == Spec /\ WF_vars(Return) /\ SF_vars(FlushLoop)

\* A flush goroutine is started only by an Init call whose NewClient succeeded.
LoopStartedOnlyAfterClient ==
    [][nLoops' > nLoops =>
          /\ last'.op = "Init"
          /\ nLoops' = nLoops + 1
          /\ \E i \in Pos(last'.events, "newClient") :
                /\ last'.events[i].ok
                /\ \E j \in Pos(last'.events, "startLoop") : i < j]_vars

\* No call, Close included, stops a flush goroutine.
LoopNeverStopped == [][nLoops' >= nLoops]_vars

\* While the process runs, a started loop flushes again and again.
LoopKeepsFlushing == []<>(nLoops = 0 \/ proc # "running" \/ last.op = "FlushLoop")

\* Log is ready to run whenever the host is between calls, whatever the
\* flush goroutines are doing.
LogNeverWaits == [](Idle /\ inited => ENABLED DoLog)

MaxMsgLen == 3
MsgChars == {"m", " ", "\t", "\n"}
Whitespace == {" ", "\t", "\n"}
Messages(n) == [1 .. n -> MsgChars]

\* The enrichment fields of an entry: the stamp of now() and what caller()
\* found (file "???" and line 0 when the stack could not be read).
LocalTimestamp == "2006-01-02T15:04:05.999999Z07:00"
Sources == {[File |-> "file.go", Line |-> 82], [File |-> "???", Line |-> 0]}

\* The %d verb for the two line numbers of Sources.
FormatLine(n) == IF n = 0 THEN "0" ELSE "82"

\* logEntry.String(): with file and line for Error and Critical only.
logEntryString(e) ==
    IF e.Severity = "Error" \/ e.Severity = "Critical"
    THEN <<e.localTimestamp, " ", e.Severity, " ", e.source.File, ":", FormatLine(e.source.Line),
           ":", " ">> \o e.Message
    ELSE <<e.localTimestamp, " ", e.Severity, ":", " ">> \o e.Message

\* strings.TrimSpace: leading and trailing white space removed.
TrimSpace(s) ==
    LET keep == {i \in 1 .. Len(s) : s[i] \notin Whitespace}
    IN  IF keep = {} THEN <<>>
        ELSE SubSeq(s, CHOOSE i \in keep : \A j \in keep : i <= j,
                       CHOOSE i \in keep : \A j \in keep : i >= j)

\* Mutant of logEntryBytes: the line is not trimmed.
logEntryBytes_NoTrim(e) == logEntryString(e) \o <<"\n">>

\* logEntry.Bytes(): []byte(strings.TrimSpace(e.String()) + "\n")
logEntryBytes(e) == TrimSpace(logEntryString(e)) \o <<"\n">>

\* One enriched entry is rendered both ways.
InitRender ==
    /\ InitDispatcher
    /\ platform = "unix"
    /\ \E sev \in Severities : \E src \in Sources :
       \E n \in 0 .. MaxMsgLen : \E msg \in Messages(n) :
          input = [f |-> "render",
                   e |-> [Severity |-> sev, Message |-> msg,
                          localTimestamp |-> LocalTimestamp, source |-> src]]
    /\ output = NoOutput

Render ==
    /\ input.f = "render"
    /\ output = NoOutput
    /\ output' = [f |-> "render", line |-> logEntryString(input.e),
                  bytes |-> logEntryBytes(input.e)]
    /\ UNCHANGED input
    /\ DispatcherIdle

SpecRender == InitRender /\ [][Render]_vars

\* ------------------------------------------------------------ C20
\* s is t followed by white space only.
TrailsOnlySpace(s, t) ==
    /\ Len(t) <= Len(s)
    /\ SubSeq(s, 1, Len(t)) = t
    /\ \A i \in Len(t) + 1 .. Len(s) : s[i] \in Whitespace

LocalPos(ev) == {i \in DOMAIN ev : ev[i].k \in LocalKinds}
WriterIds(ev) ==
    LET w == SelectSeq(ev, LAMBDA x : x.k = "writer")
    IN  [i \in DOMAIN w |-> w[i].id]

\* The order of the sinks in the trace of one Log call.
SinksInOrder(ev) ==
    /\ ev # <<>>
    /\ ev[1].k = "enrich"
    /\ Cardinality(Pos(ev, "enrich")) = 1
    /\ \A k \in LocalKinds : Cardinality(Pos(ev, k)) <= 1
    /\ \A i \in LocalPos(ev) : \A j \in Pos(ev, "writer") \cup Pos(ev, "cloud") : i < j
    /\ \A i \in Pos(ev, "writer") : \A j \in Pos(ev, "cloud") : i < j
    /\ Cardinality(Pos(ev, "cloud")) <= 1

\* C21 (as claimed): a Log call that is not suppressed enriches the entry
\* first, then writes it to the local sink, then once to each writer in the
\* order of the list, and only then submits it to the cloud logger when
\* there is one; every sink gets exactly one entry.
C21_SinkOrder ==
    (last.op \in LogOps /\ ~suppressed(last.arg, Cur) /\ last.arg.Severity \in KnownSeverities)
        => /\ last.ret = "none"
           /\ SinksInOrder(last.events)
           /\ LocalServed(last.events)
           /\ WriterIds(last.events) = writers
           /\ (cloudLogger # Nil) = Has(last.events, "cloud")

\* The part of C21 that the code keeps: a Log call that does not panic
\* serves the sinks in that order, each once.
SinkOrderOfReturningLog ==
    (last.op \in LogOps /\ ~suppressed(last.arg, Cur) /\ last.ret = "none")
        => /\ SinksInOrder(last.events)
           /\ (last.arg.Severity \in KnownSeverities => LocalServed(last.events))
           /\ WriterIds(last.events) = writers
           /\ (cloudLogger # Nil) = Has(last.events, "cloud")

\* ------------------------------------------------------------ C22
\* C22 (as claimed): a Log call submits to the cloud logger only if the
\* most recent Init call that got past its local set-up asked for cloud
\* logging and created the client; after an Init that disabled cloud
\* logging, had no project or failed to create the client, no Log call
\* reaches the logger an earlier Init left behind.
C22_NoStaleCloudLogger ==
    (last.op \in LogOps /\ lastInit.cloud \in {"off", "failed", "on"}
        /\ Has(last.events, "cloud"))
        => lastInit.cloud = "on"

\* Where the stale logger comes from: an Init call that does not create a
\* client leaves cloudLogger as it was.
InitKeepsOldLogger ==
    [][(last'.op = "Init" /\ ~Has(last'.events, "newLogger")) => UNCHANGED cloudLogger]_vars

\* ------------------------------------------------------------ C23
\* C23 (as claimed): once Close has released the cloud client, no later
\* step uses it: the flush goroutine calls no Flush on its logger and no
\* Log call (direct, through a wrapper or inside Fatalf) submits to it.
C23_NoUseAfterClose ==
    [][(released.client >= 1 /\ last'.op \in {"Log", "Wrapper", "Fatalf", "FlushLoop"})
         => /\ ~Has(last'.events, "cloud")
            /\ ~Has(last'.events, "flush")]_vars

\* Close leaves both cloud variables as they were, so every later reader
\* still finds the released client's logger.
CloseKeepsCloudHandles ==
    [][last'.op = "Close" => UNCHANGED <<cloudLoggingClient, cloudLogger, nLoops>>]_vars

\* ------------------------------------------------------------ C24
\* C24 (as claimed): in every reachable state at most one flush goroutine
\* is running, whatever Init and Close calls were made.
C24_AtMostOneLoop == nLoops <= 1

\* What the code keeps: every Init call that creates a client starts one
\* more goroutine, whether or not one is running already.
EveryClientStartsALoop ==
    [][(last'.op = "Init" /\ Has(last'.events, "newLogger")) => nLoops' = nLoops + 1]_vars

\* ------------------------------------------------------------ C25
\* C25 (as claimed): when no local handle was opened because Init was called
\* with local logging disabled, every Log call and every Close call
\* completes without touching a local handle: Log still writes to every
\* writer and submits to the cloud logger, and Close returns normally.
C25_LocalDisabledIsSafe ==
    (last.op \in LogOps \cup {"Close"} /\ LocalHandles = {}) =>
        /\ last.ret = "none"
        /\ ~Has(last.events, "panic")
        /\ \A k \in LocalKinds \cup {"localClose"} : ~Has(last.events, k)
        /\ (last.op \in LogOps /\ ~suppressed(last.arg, Cur)) =>
              /\ WritersServed(last.events, writers, last.arg.Severity)
              /\ (cloudLogger # Nil => Has(last.events, "cloud"))

\* What the code keeps: on the windows build, where local() and
\* localClose() test each handle for nil, the claim holds.
LocalDisabledIsSafeOnWindows == platform = "windows" => C25_LocalDisabledIsSafe

\* ------------------------------------------------------------ C26
\* C26 (as claimed): whenever Init returns an error the package state is
\* what it was before the call: logger name, debug flag and writer list are
\* not replaced by the options of the failed call, the handles are as they
\* were, and no local handle opened by the failed set-up is left open.
C26_FailedInitChangesNothing ==
    [][(last.op = "none" /\ last'.op = "Init" /\ last'.ret = "error") =>
          /\ UNCHANGED <<loggerName, debugEnabled, writers>>
          /\ UNCHANGED <<cloudLoggingClient, cloudLogger, slWriter, el, port, nLoops>>
          /\ \A i \in Pos(last'.events, "localSetup") : ~last'.events[i].ok]_vars

\* What the code keeps: a failed Init never touches the cloud variables or
\* starts a goroutine.
FailedInitLeavesCloudAlone ==
    [][(last.op = "none" /\ last'.op = "Init" /\ last'.ret = "error") =>
          UNCHANGED <<cloudLoggingClient, cloudLogger, nLoops>>]_vars

====
